---- MODULE Spec2Model ----
(***************************************************************************)
(* Model of backend/server.js: the POST /api/generate-report handler and   *)
(* the two-node LangGraph workflow (analyst -> reporter) it runs.          *)
(*                                                                         *)
(* JavaScript values are tagged records so that truthiness, the strict     *)
(* comparison with undefined and string interpolation are computed as the  *)
(* language computes them.  model.invoke is the external Generation        *)
(* Capability: a pending call either returns a content text, rejects with  *)
(* a message, or never settles.                                            *)
(***************************************************************************)
EXTENDS Integers, Sequences, FiniteSets, TLC

(* Number of requests the server handles in one behaviour. *)
NumRequests == 2

Requests == 1..NumRequests

VARIABLES
    apiKey,   \* process.env.GEMINI_API_KEY, read once at module load
    pc,       \* per request: position of the async handler
    body,     \* per request: req.body
    state,    \* per request: the channels of the compiled graph
    calls,    \* per request: the model.invoke calls issued, with their outcome
    sent      \* per request: the HTTP responses written to res

vars == <<apiKey, pc, body, state, calls, sent>>

-----------------------------------------------------------------------------
(* JavaScript values *)

Undefined == [t |-> "undefined"]

Null == [t |-> "null"]

Num(n) == [t |-> "number", v |-> n]

Str(s) == [t |-> "string", v |-> s]

Arr(a) == [t |-> "array", v |-> a]

(* ToBoolean: what `!x` negates. *)
Truthy(x) ==
    CASE x.t = "undefined" -> FALSE
      [] x.t = "null"      -> FALSE
      [] x.t = "number"    -> x.v # 0
      [] x.t = "string"    -> x.v # ""
      [] x.t = "array"     -> TRUE

Digits == <<"0", "1", "2", "3", "4", "5", "6", "7", "8", "9">>

RECURSIVE NumToString(_)
NumToString(n) ==
    IF n < 10 THEN Digits[n + 1]
    ELSE NumToString(n \div 10) \o Digits[(n % 10) + 1]

(* JSON.stringify of one {correct, attempt} record. *)
WordToJSON(w) ==
    "{\"correct\":\"" \o w.correct \o "\",\"attempt\":\"" \o w.attempt \o "\"}"

RECURSIVE JoinJSON(_)
JoinJSON(ws) ==
    IF ws = <<>> THEN ""
    ELSE IF Len(ws) = 1 THEN WordToJSON(ws[1])
    ELSE WordToJSON(ws[1]) \o "," \o JoinJSON(Tail(ws))

(* JSON.stringify(state.incorrectWords) in the analyst prompt. *)
JSONStringify(x) ==
    CASE x.t = "array"  -> "[" \o JoinJSON(x.v) \o "]"
      [] x.t = "null"   -> "null"
      [] x.t = "number" -> NumToString(x.v)
      [] x.t = "string" -> "\"" \o x.v \o "\""
      [] OTHER          -> "undefined"

(* ToString, as applied by a `${...}` template slot. *)
TemplateString(x) ==
    CASE x.t = "undefined" -> "undefined"
      [] x.t = "null"      -> "null"
      [] x.t = "number"    -> NumToString(x.v)
      [] x.t = "string"    -> x.v
      [] x.t = "array"     -> IF x.v = <<>> THEN "" ELSE "[object Object]"

-----------------------------------------------------------------------------
(* Inputs *)

ApiKeys == {Undefined, Str(""), Str("AIza-key")}

FriendWord == [correct |-> "friend", attempt |-> "freind"]

BaseBody ==
    [studentName    |-> Str("Alex"),
     grade          |-> Num(3),
     score          |-> Num(7),
     totalItems     |-> Num(10),
     incorrectWords |-> Arr(<<FriendWord>>)]

EmptyBody ==
    [studentName    |-> Undefined,
     grade          |-> Undefined,
     score          |-> Undefined,
     totalItems     |-> Undefined,
     incorrectWords |-> Undefined]

FieldNames == {"studentName", "grade", "score", "totalItems", "incorrectWords"}

FieldValues ==
    [studentName    |-> {Undefined, Str(""), Str("Alex")},
     grade          |-> {Undefined, Num(0), Num(3)},
     score          |-> {Undefined, Null, Num(0), Num(7)},
     totalItems     |-> {Undefined, Num(0), Num(10)},
     incorrectWords |-> {Undefined, Arr(<<>>), Arr(<<FriendWord>>)}]

(* Request bodies: the scenario body of the spec with one field replaced,  *)
(* and the empty object.                                                   *)
Bodies ==
    {EmptyBody} \cup
    { [BaseBody EXCEPT ![f] = x] : <<f, x>> \in
        UNION { {f} \X FieldValues[f] : f \in FieldNames } }

(* Content texts the capability may return, for either stage. *)
Texts == {"- vowel swap pattern", "<p>Great job, Alex!</p>"}

(* Messages the capability may reject with. *)
Failures == {"fetch failed"}

-----------------------------------------------------------------------------
(* The handler *)

ConfigErrorMessage == "GEMINI_API_KEY environment variable not set."

ValidationResponse ==
    [status |-> 400, body |-> [error |-> "Missing required fields in request body."]]

ErrorResponse(message) ==
    [status |-> 500,
     body   |-> [error   |-> "An internal error occurred while generating the report.",
                 details |-> message]]

(* Variant: the handler answers with the wrong channel. *)
SuccessResponse_Analysis(finalState) ==
    [status |-> 200, body |-> [report |-> finalState.analysis]]

SuccessResponse(finalState) ==
    [status |-> 200, body |-> [report |-> finalState.report]]

(* Variant: incorrectWords is not checked. *)
ValidationFails_NoWordsCheck(b) ==
    \/ ~Truthy(b.studentName)
    \/ ~Truthy(b.grade)
    \/ b.score = Undefined
    \/ ~Truthy(b.totalItems)

(* Variant: score is tested like the other fields, !score. *)
ValidationFails_FalsyScore(b) ==
    \/ ~Truthy(b.studentName)
    \/ ~Truthy(b.grade)
    \/ ~Truthy(b.score)
    \/ ~Truthy(b.totalItems)
    \/ ~Truthy(b.incorrectWords)

(* Variant: an empty incorrectWords list is rejected as missing. *)
ValidationFails_EmptyListMissing(b) ==
    \/ ~Truthy(b.studentName)
    \/ ~Truthy(b.grade)
    \/ b.score = Undefined
    \/ ~Truthy(b.totalItems)
    \/ ~Truthy(b.incorrectWords)
    \/ b.incorrectWords = Arr(<<>>)

ValidationFails(b) ==
    \/ ~Truthy(b.studentName)
    \/ ~Truthy(b.grade)
    \/ b.score = Undefined
    \/ ~Truthy(b.totalItems)
    \/ ~Truthy(b.incorrectWords)

(* Variant: the body is validated before the credential is checked. *)
EntryOutcome_ValidateFirst(key, b) ==
    IF ValidationFails(b) THEN "invalid"
    ELSE IF ~Truthy(key) THEN "config_error"
    ELSE "run"

(* Order of the checks at the head of the try block. *)
EntryOutcome(key, b) ==
    IF ~Truthy(key) THEN "config_error"
    ELSE IF ValidationFails(b) THEN "invalid"
    ELSE "run"

(* graphState: every channel's default. *)
ChannelDefaults ==
    [studentName    |-> Str(""),
     grade          |-> Num(0),
     score          |-> Num(0),
     totalItems     |-> Num(0),
     incorrectWords |-> Arr(<<>>),
     analysis       |-> Str(""),
     report         |-> Str("")]

(* Variant: a reducer that keeps the old value, (x, y) => x. *)
Reduce_KeepOld(x, y) == x

(* graphState: every channel's reducer, value: (x, y) => y. *)
Reduce(x, y) == y

(* Writing a partial update (the graph input or a node's return value)     *)
(* into the channels.                                                      *)
ApplyUpdate(st, update) ==
    [k \in DOMAIN st |->
        IF k \in DOMAIN update THEN Reduce(st[k], update[k]) ELSE st[k]]

(* Variant: one module-level graph state shared by all requests. *)
Chan_Shared(r) == 1

(* The channels a request's graph reads and writes: graphState, workflow   *)
(* and appGraph are created inside the handler, one per request.           *)
Chan(r) == r

AnalystPrompt(st) ==
    [template       |-> "analyst",
     studentName    |-> TemplateString(st.studentName),
     grade          |-> TemplateString(st.grade),
     incorrectWords |-> JSONStringify(st.incorrectWords)]

ReporterPrompt(st) ==
    [template    |-> "reporter",
     studentName |-> TemplateString(st.studentName),
     grade       |-> TemplateString(st.grade),
     score       |-> TemplateString(st.score),
     totalItems  |-> TemplateString(st.totalItems),
     analysis    |-> TemplateString(st.analysis)]

(* model.invoke([new HumanMessage(prompt)]) issued by a node. *)
NewCall(node, prompt) ==
    [node |-> node, prompt |-> prompt, outcome |-> "pending", content |-> ""]

Settle(cs, outcome, content) ==
    [cs EXCEPT ![Len(cs)] = [@ EXCEPT !.outcome = outcome, !.content = content]]

Pending(r, node) ==
    /\ pc[r] = node
    /\ calls[r] # <<>>
    /\ calls[r][Len(calls[r])].outcome = "pending"

(* app.post('/api/generate-report'): the handler up to its first await. *)
Request(r, b) ==
    /\ pc[r] = "idle"
    /\ body' = [body EXCEPT ![r] = b]
    /\ LET o == EntryOutcome(apiKey, b) IN
       CASE o = "config_error" ->
              /\ sent' = [sent EXCEPT ![r] = Append(@, ErrorResponse(ConfigErrorMessage))]
              /\ pc' = [pc EXCEPT ![r] = "done"]
              /\ UNCHANGED <<state, calls>>
         [] o = "invalid" ->
              /\ sent' = [sent EXCEPT ![r] = Append(@, ValidationResponse)]
              /\ pc' = [pc EXCEPT ![r] = "done"]
              /\ UNCHANGED <<state, calls>>
         [] o = "run" ->
              LET st == ApplyUpdate(ChannelDefaults, b) IN
              /\ state' = [state EXCEPT ![Chan(r)] = st]
              /\ calls' = [calls EXCEPT ![r] = Append(@, NewCall("analyst", AnalystPrompt(st)))]
              /\ pc' = [pc EXCEPT ![r] = "analyst"]
              /\ UNCHANGED sent
    /\ UNCHANGED apiKey

(* analystNode resumes with the response; the edge analyst -> reporter     *)
(* runs reporterNode up to its await.                                      *)
AnalystReturn(r, text) ==
    /\ Pending(r, "analyst")
    /\ LET st == ApplyUpdate(state[Chan(r)], [analysis |-> Str(text)]) IN
       /\ state' = [state EXCEPT ![Chan(r)] = st]
       /\ calls' = [calls EXCEPT ![r] =
                      Append(Settle(@, "ok", text), NewCall("reporter", ReporterPrompt(st)))]
    /\ pc' = [pc EXCEPT ![r] = "reporter"]
    /\ UNCHANGED <<apiKey, body, sent>>

(* Variant: analystNode swallows the rejection and the graph goes on to    *)
(* the reporter with the analysis it has.                                 *)
AnalystFail_Fallback(r, message) ==
    /\ Pending(r, "analyst")
    /\ calls' = [calls EXCEPT ![r] =
                   Append(Settle(@, "error", message),
                          NewCall("reporter", ReporterPrompt(state[Chan(r)])))]
    /\ pc' = [pc EXCEPT ![r] = "reporter"]
    /\ UNCHANGED <<apiKey, body, state, sent>>

(* model.invoke rejects in analystNode: appGraph.invoke rejects, the catch *)
(* block answers.                                                          *)
AnalystFail(r, message) ==
    /\ Pending(r, "analyst")
    /\ calls' = [calls EXCEPT ![r] = Settle(@, "error", message)]
    /\ sent' = [sent EXCEPT ![r] = Append(@, ErrorResponse(message))]
    /\ pc' = [pc EXCEPT ![r] = "done"]
    /\ UNCHANGED <<apiKey, body, state>>

(* Variant: the handler finishes without writing the response. *)
ReporterReturn_NoResponse(r, text) ==
    /\ Pending(r, "reporter")
    /\ state' = [state EXCEPT ![Chan(r)] = ApplyUpdate(@, [report |-> Str(text)])]
    /\ calls' = [calls EXCEPT ![r] = Settle(@, "ok", text)]
    /\ pc' = [pc EXCEPT ![r] = "done"]
    /\ UNCHANGED <<apiKey, body, sent>>

(* reporterNode resumes with the response; reporter is the finish point,   *)
(* appGraph.invoke resolves and the handler answers.                       *)
ReporterReturn(r, text) ==
    /\ Pending(r, "reporter")
    /\ LET st == ApplyUpdate(state[Chan(r)], [report |-> Str(text)]) IN
       /\ state' = [state EXCEPT ![Chan(r)] = st]
       /\ sent' = [sent EXCEPT ![r] = Append(@, SuccessResponse(st))]
    /\ calls' = [calls EXCEPT ![r] = Settle(@, "ok", text)]
    /\ pc' = [pc EXCEPT ![r] = "done"]
    /\ UNCHANGED <<apiKey, body>>

(* Variant: a reporter failure answers with the partial state. *)
ReporterFail_Partial(r, message) ==
    /\ Pending(r, "reporter")
    /\ calls' = [calls EXCEPT ![r] = Settle(@, "error", message)]
    /\ sent' = [sent EXCEPT ![r] =
                  Append(@, [status |-> 500,
                             body |-> [error    |-> "An internal error occurred while generating the report.",
                                       details  |-> message,
                                       analysis |-> state[Chan(r)].analysis]])]
    /\ pc' = [pc EXCEPT ![r] = "done"]
    /\ UNCHANGED <<apiKey, body, state>>

ReporterFail(r, message) ==
    /\ Pending(r, "reporter")
    /\ calls' = [calls EXCEPT ![r] = Settle(@, "error", message)]
    /\ sent' = [sent EXCEPT ![r] = Append(@, ErrorResponse(message))]
    /\ pc' = [pc EXCEPT ![r] = "done"]
    /\ UNCHANGED <<apiKey, body, state>>

(* The promise of a pending model.invoke never settles; nothing in the     *)
(* handler bounds the await.                                               *)
CapabilityHang(r) ==
    /\ pc[r] \in {"analyst", "reporter"}
    /\ calls[r][Len(calls[r])].outcome = "pending"
    /\ calls' = [calls EXCEPT ![r] = Settle(@, "hung", "")]
    /\ UNCHANGED <<apiKey, pc, body, state, sent>>

Init ==
    /\ apiKey \in ApiKeys
    /\ pc = [r \in Requests |-> "idle"]
    /\ body = [r \in Requests |-> EmptyBody]
    /\ state = [r \in Requests |-> ChannelDefaults]
    /\ calls = [r \in Requests |-> <<>>]
    /\ sent = [r \in Requests |-> <<>>]

(* A settled call resumes the handler. *)
Complete(r) ==
    \/ \E text \in Texts : AnalystReturn(r, text)
    \/ \E message \in Failures : AnalystFail(r, message)
    \/ \E text \in Texts : ReporterReturn(r, text)
    \/ \E message \in Failures : ReporterFail(r, message)

Next ==
    \E r \in Requests :
        \/ \E b \in Bodies : Request(r, b)
        \/ \E text \in Texts : AnalystReturn(r, text)
        \/ \E message \in Failures : AnalystFail(r, message)
        \/ \E text \in Texts : ReporterReturn(r, text)
        \/ \E message \in Failures : ReporterFail(r, message)
        \/ CapabilityHang(r)

Spec == Init /\ [][Next]_vars

(* Every capability call that is not hung settles, and the event loop then *)
(* resumes the handler.                                                    *)
FairSpec == Spec /\ \A r \in Requests : WF_vars(Complete(r))

TypeOK ==
    /\ apiKey \in ApiKeys
    /\ pc \in [Requests -> {"idle", "analyst", "reporter", "done"}]
    /\ body \in [Requests -> Bodies]
    /\ \A r \in Requests : Len(calls[r]) <= 2 /\ Len(sent[r]) <= 2

-----------------------------------------------------------------------------
(* Properties *)

Arrived(r) == pc[r] # "idle"

(* A required field is missing: its key is absent from the JSON body. *)
MissingField(b) == \E f \in FieldNames : b[f].t = "undefined"

Answered400(r) ==
    sent[r] = <<[status |-> 400,
                 body   |-> [error |-> "Missing required fields in request body."]]>>

Answered500(r, message) ==
    sent[r] = <<[status |-> 500,
                 body   |-> [error   |-> "An internal error occurred while generating the report.",
                             details |-> message]]>>

Answered200(r, text) ==
    sent[r] = <<[status |-> 200, body |-> [report |-> [t |-> "string", v |-> text]]]>>

NotRejected(r) == \A i \in 1..Len(sent[r]) : sent[r][i].status # 400

Settled(r, i, outcome) == Len(calls[r]) >= i /\ calls[r][i].outcome = outcome

Hung(r) == \E i \in 1..Len(calls[r]) : calls[r][i].outcome = "hung"

(* The four fields tested with `!` are truthy. *)
OthersTruthy(b) ==
    /\ b.studentName.t = "string" /\ b.studentName.v # ""
    /\ b.grade.t \in {"number", "string"} /\ b.grade.v # 0
    /\ b.totalItems.t = "number" /\ b.totalItems.v # 0
    /\ b.incorrectWords.t = "array"

(* C1, as stated: whenever a required field is missing the answer is 400   *)
(* with the fixed message and the capability is not called, in every       *)
(* configuration, the credential being set or not.                         *)
C1_MissingFieldAlways400 ==
    \A r \in Requests :
        (Arrived(r) /\ MissingField(body[r])) => (Answered400(r) /\ calls[r] = <<>>)

(* C1, amended: when the credential is set (non-empty), a request with a   *)
(* missing required field is answered 400 with the fixed message and the   *)
(* capability is never called for it.                                      *)
C1_MissingField400WithKey ==
    \A r \in Requests :
        (Truthy(apiKey) /\ Arrived(r) /\ MissingField(body[r]))
            => (Answered400(r) /\ calls[r] = <<>> /\ pc[r] = "done")

C1_Witness ==
    \E r \in Requests :
        /\ Truthy(apiKey)
        /\ body[r] = [BaseBody EXCEPT !.incorrectWords = Undefined]
        /\ Answered400(r)

(* C2: the capability is called for the analyst first and for the reporter *)
(* second; the reporter call exists only once the analyst call has         *)
(* returned, and its prompt carries exactly the text that call returned.   *)
C2_ReporterGetsAnalysis ==
    \A r \in Requests :
        /\ Len(calls[r]) <= 2
        /\ (Truthy(apiKey) /\ Arrived(r) /\ OthersTruthy(body[r]) /\ body[r].score.t # "undefined")
              => calls[r] # <<>>
        /\ calls[r] # <<>> => calls[r][1].node = "analyst"
        /\ pc[r] = "reporter" => Len(calls[r]) = 2
        /\ Len(calls[r]) = 2 =>
              /\ calls[r][2].node = "reporter"
              /\ calls[r][1].outcome = "ok"
              /\ calls[r][1].content \in Texts
              /\ calls[r][2].prompt.analysis = calls[r][1].content

C2_Witness ==
    \E r \in Requests :
        /\ Len(calls[r]) = 2
        /\ calls[r][1].content = "- vowel swap pattern"
        /\ calls[r][2].prompt.analysis = "- vowel swap pattern"
        /\ calls[r][2].outcome = "pending"

(* C3: when the analyst call fails the reporter is never called: the       *)
(* request ends with that single call, answered 500.                       *)
C3_AnalystFailureAborts ==
    \A r \in Requests :
        Settled(r, 1, "error") =>
            /\ Len(calls[r]) = 1
            /\ calls[r][1].node = "analyst"
            /\ pc[r] = "done"
            /\ Len(sent[r]) = 1 /\ sent[r][1].status = 500

C3_Witness ==
    \E r \in Requests : Settled(r, 1, "error") /\ pc[r] = "done" /\ Len(calls[r]) = 1

(* C4: without the credential (absent or empty) every request, whatever    *)
(* its body, makes no capability call, runs no stage and is answered 500   *)
(* with the generic message and the configuration error as details.        *)
C4_NoKeyAlways500 ==
    ~Truthy(apiKey) =>
        \A r \in Requests :
            /\ calls[r] = <<>>
            /\ pc[r] \in {"idle", "done"}
            /\ state[r] = ChannelDefaults
            /\ Arrived(r) => Answered500(r, "GEMINI_API_KEY environment variable not set.")

C4_Witness ==
    \E r, q \in Requests :
        /\ apiKey = Undefined
        /\ body[r] = EmptyBody /\ body[q] = BaseBody
        /\ Answered500(r, "GEMINI_API_KEY environment variable not set.")
        /\ Answered500(q, "GEMINI_API_KEY environment variable not set.")

(* C5: when both capability calls succeed the answer is 200 with the body  *)
(* { report: R }, R being the text the reporter call returned; the body    *)
(* has no other field and the analysis is not in it.                       *)
C5_SuccessReturnsReport ==
    \A r \in Requests :
        (Settled(r, 1, "ok") /\ Settled(r, 2, "ok")) =>
            /\ Answered200(r, calls[r][2].content)
            /\ DOMAIN sent[r][1].body = {"report"}

C5_Witness ==
    \E r \in Requests :
        /\ Settled(r, 1, "ok") /\ Settled(r, 2, "ok")
        /\ calls[r][1].content # calls[r][2].content
        /\ Answered200(r, calls[r][2].content)

(* C6: when either stage's call fails the answer is 500 with the generic   *)
(* message and the failure's message as details, and nothing else: no      *)
(* report and no analysis, also when the analyst had succeeded.            *)
C6_FailureReturnsNoContent ==
    \A r \in Requests :
        \A i \in 1..Len(calls[r]) :
            calls[r][i].outcome = "error" =>
                /\ Answered500(r, calls[r][i].content)
                /\ DOMAIN sent[r][1].body = {"error", "details"}
                /\ \A text \in Texts : sent[r][1].body.details # text

C6_Witness ==
    \E r \in Requests :
        /\ Settled(r, 1, "ok") /\ Settled(r, 2, "error")
        /\ Answered500(r, "fetch failed")

(* The reading of "present and non-falsy" in C7: every field is truthy,    *)
(* except that a score of 0 also counts.                                   *)
AllNonFalsy(b) ==
    /\ OthersTruthy(b)
    /\ \/ b.score.t = "number"
       \/ b.score.t = "string" /\ b.score.v # ""
       \/ b.score.t = "array"

(* Data-model invariant of a ReportRequest. *)
DataModelInvariant(b) ==
    /\ b.studentName.t = "string"
    /\ b.grade.t \in {"number", "string"}
    /\ b.score.t = "number" /\ b.score.v >= 0
    /\ b.totalItems.t = "number" /\ b.totalItems.v >= 0
    /\ b.incorrectWords.t = "array"

(* C7, as stated: with the credential set a request passes validation      *)
(* exactly when all five fields are non-falsy, score 0 being the only      *)
(* exception, and every request satisfying the data-model invariant is     *)
(* accepted.                                                               *)
C7_AcceptedIffNonFalsy ==
    \A r \in Requests :
        (Truthy(apiKey) /\ Arrived(r)) =>
            /\ NotRejected(r) <=> AllNonFalsy(body[r])
            /\ DataModelInvariant(body[r]) => NotRejected(r)

(* C7, amended: with the credential set a request passes validation        *)
(* exactly when studentName, grade, totalItems and incorrectWords are      *)
(* non-falsy and score is not undefined (0, and also null, count as        *)
(* present); a request satisfying the data-model invariant is accepted     *)
(* when its name is non-empty and its grade and total item count are not   *)
(* 0, the incorrect-word list being possibly empty.                        *)
C7_AcceptedIffScoreDefined ==
    \A r \in Requests :
        (Truthy(apiKey) /\ Arrived(r)) =>
            /\ NotRejected(r) <=> (OthersTruthy(body[r]) /\ body[r].score.t # "undefined")
            /\ ~NotRejected(r) => (Answered400(r) /\ calls[r] = <<>>)
            /\ (DataModelInvariant(body[r]) /\ OthersTruthy(body[r])) => NotRejected(r)

C7_Witness ==
    \E r, q \in Requests :
        /\ Truthy(apiKey)
        /\ body[r] = [BaseBody EXCEPT !.score = Null] /\ pc[r] = "analyst"
        /\ body[q] = [BaseBody EXCEPT !.totalItems = Num(0)] /\ Answered400(q)

(* C8: a request whose incorrectWords is [] and whose other fields are     *)
(* valid is not rejected and not cut short: the analyst is called with the *)
(* empty list, the reporter is called once the analyst has returned, and   *)
(* when the reporter returns the answer is 200 with the text it returned;  *)
(* no answer is sent but on the outcome of a capability call.              *)
C8_EmptyListRunsBothStages ==
    \A r \in Requests :
        (/\ Truthy(apiKey) /\ Arrived(r)
         /\ body[r].incorrectWords = Arr(<<>>)
         /\ OthersTruthy(body[r]) /\ body[r].score.t # "undefined") =>
            /\ NotRejected(r)
            /\ calls[r] # <<>>
            /\ calls[r][1].node = "analyst"
            /\ calls[r][1].prompt.incorrectWords = "[]"
            /\ Settled(r, 1, "ok") => (Len(calls[r]) = 2 /\ calls[r][2].node = "reporter")
            /\ Settled(r, 2, "ok") => Answered200(r, calls[r][2].content)
            /\ sent[r] # <<>> =>
                  \/ Settled(r, 2, "ok")
                  \/ \E i \in 1..Len(calls[r]) : calls[r][i].outcome = "error"

C8_Witness ==
    \E r \in Requests :
        /\ body[r] = [BaseBody EXCEPT !.incorrectWords = Arr(<<>>)]
        /\ Len(calls[r]) = 2
        /\ Answered200(r, "<p>Great job, Alex!</p>")

(* What one request owns. *)
Local(r) == <<pc[r], body[r], state[r], calls[r], sent[r]>>

(* The answer a finished request must have got, from its own body and the  *)
(* outcomes of its own calls.                                              *)
OwnAnswer(r) ==
    IF ~Truthy(apiKey) THEN Answered500(r, "GEMINI_API_KEY environment variable not set.")
    ELSE IF calls[r] = <<>> THEN Answered400(r)
    ELSE IF calls[r][Len(calls[r])].outcome = "error"
         THEN Answered500(r, calls[r][Len(calls[r])].content)
    ELSE Len(calls[r]) = 2 /\ Answered200(r, calls[r][2].content)

(* C9: under any interleaving of concurrent requests each request's state  *)
(* is its own: a step of one request changes nothing of another, the       *)
(* analysis in a request's channels and reporter prompt is the one its own *)
(* analyst call returned, and its answer follows from its own calls.       *)
C9_RequestsAreIsolated ==
    /\ [][\A r, q \in Requests :
            (r # q /\ Local(r)' # Local(r)) => Local(q)' = Local(q)]_vars
    /\ [](\A r \in Requests :
            /\ state[r].analysis =
                  IF Settled(r, 1, "ok") THEN Str(calls[r][1].content) ELSE Str("")
            /\ Len(calls[r]) = 2 => calls[r][2].prompt.analysis = calls[r][1].content
            /\ Arrived(r) =>
                  /\ state[r].studentName = body[r].studentName \/ calls[r] = <<>>
                  /\ pc[r] = "done" => OwnAnswer(r))

C9_Witness ==
    \E r, q \in Requests :
        /\ r # q
        /\ pc[r] = "reporter" /\ pc[q] = "reporter"
        /\ calls[r][1].content # calls[q][1].content
        /\ calls[r][2].prompt.analysis = calls[r][1].content
        /\ calls[q][2].prompt.analysis = calls[q][1].content

(* C10: a request gets at most one response, of status 200, 400 or 500;    *)
(* it gets exactly one once its capability calls have settled; and a       *)
(* request with a call that never settles has no response, ever: it has    *)
(* none while the call is hung, and a hung call stays hung.                *)
C10_ExactlyOneResponse ==
    /\ [](\A r \in Requests :
            /\ Len(sent[r]) <= 1
            /\ \A i \in 1..Len(sent[r]) : sent[r][i].status \in {200, 400, 500})
    /\ \A r \in Requests : Arrived(r) ~> (Hung(r) \/ (pc[r] = "done" /\ Len(sent[r]) = 1))
    /\ [](\A r \in Requests : Hung(r) => (sent[r] = <<>> /\ pc[r] # "done"))
    /\ [][\A r \in Requests : Hung(r) => Hung(r)']_vars

C10_Witness ==
    \E r, q \in Requests :
        /\ Hung(r) /\ sent[r] = <<>>
        /\ Settled(q, 2, "ok") /\ Len(sent[q]) = 1

====
